---------------------------- MODULE Spec2Model ----------------------------
(***************************************************************************)
(* A model of youtube_subtitles.py: the class YouTubeSubtitleDownloader    *)
(* with its operations download_subtitles, search_in_subtitles,            *)
(* convert_to_json and the cue parser _parse_subtitles.  A behaviour is    *)
(* one call of one operation on a directory; list_downloads, which only    *)
(* prints the directory, is left out.                                      *)
(*                                                                         *)
(* A Python str is a sequence of tokens.  A token is one character, or a   *)
(* fixed run of non-blank characters that the code only ever looks at as a *)
(* whole ("-->", "WEBVTT", "youtube.com", ...).  " " and "\n" are the      *)
(* whitespace characters.                                                  *)
(***************************************************************************)
EXTENDS Integers, Sequences, FiniteSets, TLC

VARIABLES
    op,                \* the operation main() runs: "convert", "search", "download"
    pc,                \* the position inside that operation
    fs,                \* the output directory: file name -> content
    fs0,               \* history: the directory as the operation found it
    input_file,        \* convert_to_json's argument
    output_file,       \* convert_to_json's argument (NoneVal: not given)
    lines,             \* the local `lines` of _parse_subtitles
    idx,               \* history: how many lines the for loop has consumed
    current_subtitle,  \* the local dict `current_subtitle`
    subtitles,         \* the local list `subtitles`
    cur_src,           \* history: the line numbers current_subtitle was built from
    sub_src,           \* history: the same for every element of `subtitles`
    raised,            \* an exception escaped _parse_subtitles' loop
    search_term,       \* search_in_subtitles' argument
    filename,          \* search_in_subtitles' argument (NoneVal: not given)
    files,             \* the local list `files`
    fidx,              \* how many elements of `files` the for loop has consumed
    found_count,       \* the local `found_count`
    url,               \* download_subtitles' arguments
    language,
    formats,
    calls,             \* the invocations of the yt_dlp collaborator, in order
    validated,         \* history: what _validate_url returned (NoneVal: not called)
    shape,             \* history: the family the input file was drawn from
    output_path,       \* convert_to_json's local `output_path` (a file name)
    out,               \* what has been printed, in order
    result             \* the operation's return value (NoneVal: none yet)

vars == << op, pc, fs, fs0, input_file, output_file, lines, idx,
           current_subtitle, subtitles, cur_src, sub_src, raised,
           search_term, filename, files, fidx, found_count,
           url, language, formats, calls, validated,
           shape, output_path, out, result >>

\* Python's None, True and False, as the values of variables that hold either
NoneVal == "None"
PyBool(b) == IF b THEN "True" ELSE "False"

\* an optional list argument
NoList == [none |-> TRUE]
SomeList(l) == [none |-> FALSE, list |-> l]

----------------------------------------------------------------------------
(* Bounds of the model. *)

MaxLines == 4          \* lines of a file of arbitrary shape
MaxBlocks == 2         \* cue blocks of a well-formed or SRT-style file
MaxText == 2           \* text lines of one cue block
MaxSearchLines == 7    \* lines of the file the match cap is exercised on

----------------------------------------------------------------------------
(* str operations. *)

Whitespace == {" ", "\n"}

RECURSIVE LStrip(_)
LStrip(s) ==
    IF s # <<>> /\ Head(s) \in Whitespace THEN LStrip(Tail(s)) ELSE s

RECURSIVE RStrip(_)
RStrip(s) ==
    IF s # <<>> /\ s[Len(s)] \in Whitespace
    THEN RStrip(SubSeq(s, 1, Len(s) - 1))
    ELSE s

\* str.strip()
Strip(s) == RStrip(LStrip(s))

\* sub in s
Contains(s, sub) ==
    \E i \in 1..(Len(s) - Len(sub) + 1) : SubSeq(s, i, i + Len(sub) - 1) = sub

\* s.startswith(prefix)
StartsWith(s, prefix) ==
    Len(s) >= Len(prefix) /\ SubSeq(s, 1, Len(prefix)) = prefix

LowerChar(c) ==
    CASE c = "H" -> "h"
      [] c = "X" -> "x"
      [] OTHER -> c

\* str.lower()
Lower(s) == [i \in 1..Len(s) |-> LowerChar(s[i])]

\* s[:n]
Take(s, n) == SubSeq(s, 1, IF Len(s) < n THEN Len(s) ELSE n)

----------------------------------------------------------------------------
(* dict operations: a dict is a function from its keys. *)

EmptyDict == [k \in {} |-> <<>>]

\* d[k] = v
SetKey(d, k, v) == [q \in DOMAIN d \cup {k} |-> IF q = k THEN v ELSE d[q]]

\* the truth value of d.get(k), for str values
GetIsTruthy(d, k) == k \in DOMAIN d /\ d[k] # <<>>

----------------------------------------------------------------------------
(* The file system under output_dir. *)

Absent == [kind |-> "absent"]
Undecodable == [kind |-> "binary"]          \* exists, is not UTF-8 text
\* lines: the text between line terminators; eofnl: the last line has one too
TextFile(ls, nl) == [kind |-> "text", lines |-> ls, eofnl |-> nl]
JsonFile(doc) == [kind |-> "json", doc |-> doc]
PartialFile == [kind |-> "partial"]         \* opened for writing, dump cut short

\* Path.exists()
PathExists(f, name) == f[name].kind # "absent"

\* Faulty variant: undecodable bytes are ignored instead of raising
DecodableIgnoringErrors(content) == content.kind # "absent"

\* open(..., 'r', encoding='utf-8') followed by readlines() returns normally
Decodable(content) == content.kind = "text"

\* f.readlines(): every line keeps its line terminator
ReadLines(content) ==
    IF content.kind = "text"
    THEN [i \in 1..Len(content.lines) |->
             IF i < Len(content.lines) \/ content.eofnl
             THEN content.lines[i] \o <<"\n">>
             ELSE content.lines[i]]
    ELSE <<>>

\* Path.stem + ".json"
Stem(name) ==
    CASE name = "a.vtt" -> "a"
      [] name = "a.json" -> "a"
      [] name = "b.vtt" -> "b"
      [] name = "c.srt" -> "c"
      [] OTHER -> name

JsonName(stem) ==
    CASE stem = "a" -> "a.json"
      [] stem = "b" -> "b.json"
      [] stem = "c" -> "c.json"
      [] OTHER -> "o.json"

FileNames == {"a.vtt", "b.vtt", "c.srt", "a.json", "b.json", "c.json", "o.json"}

----------------------------------------------------------------------------
(* _parse_subtitles: one iteration of `for line in lines`. *)

ARROW == <<" ", "-->", " ">>
WEBVTT == <<"WEBVTT">>

\* `not line or line.startswith("WEBVTT")`
IsSkipped(line) == line = <<>> \/ StartsWith(line, WEBVTT)

\* `" --> " in line`
IsTimestamp(line) == Contains(line, ARROW)

\* Faulty variant: the text branch without its test of the pending timestamp
IsTextBranchAnyLine(line, cur) == line # <<>>

\* `line and current_subtitle.get("timestamp")`
IsTextBranch(line, cur) == line # <<>> /\ GetIsTruthy(cur, "timestamp")

\* `line and "timestamp" in current_subtitle`
IsFlushBranch(line, cur) == line # <<>> /\ "timestamp" \in DOMAIN cur

\* `"text" not in current_subtitle`
TextIsUnset(cur) == "text" \notin DOMAIN cur

\* Faulty variant: a later line is appended without the separating space
AddTextNoSeparator(cur, line) ==
    IF "text" \notin DOMAIN cur
    THEN [dict |-> SetKey(cur, "text", line), raised |-> FALSE]
    ELSE [dict |-> SetKey(cur, "text", cur["text"] \o line), raised |-> FALSE]

\* `current_subtitle["text"] = line`, or `current_subtitle["text"] += " " + line`
\* which raises KeyError when the key is missing
AddText(cur, line) ==
    IF TextIsUnset(cur)
    THEN [dict |-> SetKey(cur, "text", line), raised |-> FALSE]
    ELSE IF "text" \in DOMAIN cur
         THEN [dict |-> SetKey(cur, "text", cur["text"] \o <<" ">> \o line),
               raised |-> FALSE]
         ELSE [dict |-> cur, raised |-> TRUE]

\* Faulty variant: a timing line starts a fresh dict and drops the pending text
SetTimestampFresh(cur, line) == SetKey(EmptyDict, "timestamp", line)

\* `current_subtitle["timestamp"] = line`
SetTimestamp(cur, line) == SetKey(cur, "timestamp", line)

\* The body of the loop on one physical line: the dict and the list after it,
\* the branch taken, and whether an exception was raised.
ParseStep(cur, subs, raw) ==
    LET line == Strip(raw) IN
    IF IsSkipped(line)
    THEN [cur |-> cur, subs |-> subs, branch |-> "skip", raised |-> FALSE]
    ELSE IF IsTimestamp(line)
    THEN [cur |-> SetTimestamp(cur, line), subs |-> subs,
          branch |-> "timestamp", raised |-> FALSE]
    ELSE IF IsTextBranch(line, cur)
    THEN [cur |-> AddText(cur, line).dict, subs |-> subs,
          branch |-> "text", raised |-> AddText(cur, line).raised]
    ELSE IF IsFlushBranch(line, cur)
    THEN [cur |-> EmptyDict, subs |-> Append(subs, cur),
          branch |-> "flush", raised |-> FALSE]
    ELSE [cur |-> cur, subs |-> subs, branch |-> "drop", raised |-> FALSE]

\* history: the line numbers behind current_subtitle after the step
NoSrc == [ts |-> 0, text |-> <<>>]

SrcStep(src, branch, n) ==
    CASE branch = "timestamp" -> [src EXCEPT !.ts = n]
      [] branch = "text" -> [src EXCEPT !.text = Append(@, n)]
      [] branch = "flush" -> NoSrc
      [] OTHER -> src

----------------------------------------------------------------------------
(* json.dump(subtitles, f, ensure_ascii=False, indent=2): an array of       *)
(* objects, each the dict's (key, value) pairs in insertion order; no       *)
(* character is escaped.  "timestamp" is always inserted before "text".     *)

JsonObject(d) ==
    (IF "timestamp" \in DOMAIN d THEN << <<"timestamp", d["timestamp"]>> >> ELSE <<>>)
    \o (IF "text" \in DOMAIN d THEN << <<"text", d["text"]>> >> ELSE <<>>)

JsonDump(cues) == [i \in 1..Len(cues) |-> JsonObject(cues[i])]

\* `open(output_path, 'w')`: creates or truncates the file
OpenForWrite(f, name) == [f EXCEPT ![name] = JsonFile(<<>>)]

\* How the `with open(...) / json.dump` statement can end.
WriteOutcomes == {"written", "open_fails", "dump_fails"}

----------------------------------------------------------------------------
(* The inputs of the model. *)

SeqsUpTo(S, n) == UNION { [1..k -> S] : k \in 0..n }

\* Lines of a subtitle file (without their terminator).
Blank == <<>>
HeaderLine == <<"WEBVTT">>
HeaderText == <<"WEBVTT", " ", "a">>            \* "WEBVTT a"
Timing1 == <<"t1", " ", "-->", " ", "t2">>      \* "t1 --> t2"
Timing2 == <<" ", "t2", " ", "-->", " ", "t3", " ">>
TextA == <<"a">>
TextB == <<" ", "b", " ", "c", " ">>            \* " b c "
Index1 == <<"1">>
Index2 == <<"2">>
Index3 == <<"3">>
HalfArrow == <<"a", " ", "-->", " ">>           \* "a --> ": no timing once stripped

AnyLines == {Blank, HeaderText, Timing1, Timing2, TextA, TextB, Index1, HalfArrow}
TimingLines == {Timing1, Timing2}
TextLines == {TextA, TextB}
IndexLines == {Index1, Index2, Index3}

IndexLine(i) == CASE i = 1 -> Index1 [] i = 2 -> Index2 [] OTHER -> Index3

\* blocks joined by one blank line
RECURSIVE JoinBlocks(_)
JoinBlocks(bs) ==
    IF bs = <<>> THEN <<>>
    ELSE IF Len(bs) = 1 THEN Head(bs)
    ELSE Head(bs) \o <<Blank>> \o JoinBlocks(Tail(bs))

\* files of any shape
GeneralFiles == { TextFile(ls, TRUE) : ls \in SeqsUpTo(AnyLines, MaxLines) }

\* n >= 1 blocks of a timing line and one text line, an optional banner first
WellFormedBlocks == { <<t, x>> : t \in TimingLines, x \in TextLines }

WellFormedFiles ==
    { TextFile(pre \o JoinBlocks(bs), nl) :
        pre \in {<<>>, <<HeaderLine, Blank>>},
        bs \in SeqsUpTo(WellFormedBlocks, MaxBlocks) \ {<<>>},
        nl \in BOOLEAN }

\* one block: a timing line and the lines of its text (among them a numeric
\* line and a line that starts like the banner)
SingleBlockFiles ==
    { TextFile(pre \o <<t>> \o xs \o post, nl) :
        pre \in {<<>>, <<HeaderLine, Blank>>},
        t \in TimingLines,
        xs \in SeqsUpTo(TextLines \cup {Index1, HeaderText}, MaxText) \ {<<>>},
        post \in {<<>>, <<Blank>>},
        nl \in BOOLEAN }

\* SRT: every block is an index line, a timing line and text lines
SrtBlocks(i) ==
    { <<IndexLine(i), t>> \o xs :
        t \in TimingLines, xs \in SeqsUpTo({TextA}, MaxText) \ {<<>>} }

SrtFiles ==
    { TextFile(JoinBlocks(bs), TRUE) :
        bs \in { b \in SeqsUpTo(UNION { SrtBlocks(i) : i \in 1..MaxBlocks }, MaxBlocks) :
                   /\ b # <<>>
                   /\ \A i \in 1..Len(b) : b[i] \in SrtBlocks(i) } }

\* what a file of the directory can be when the operation is about its I/O
SmallContents ==
    { Absent, Undecodable,
      TextFile(<<>>, FALSE),
      TextFile(<<Timing1, TextA>>, TRUE),
      TextFile(<<Index1, Timing1>>, FALSE) }

EmptyDir == [n \in FileNames |-> Absent]

OldJson == JsonFile(<< << <<"timestamp", <<"old">> >> >> >>)

\* One run of the program: the operation, its arguments, the directory.
Call(o, sh, f) ==
    [op |-> o, shape |-> sh, fs |-> f,
     input_file |-> NoneVal, output_file |-> NoneVal,
     search_term |-> <<>>, filename |-> NoneVal,
     url |-> <<>>, language |-> NoneVal, formats |-> NoList]

ConvertCall(sh, f, i, o) ==
    [Call("convert", sh, f) EXCEPT !.input_file = i, !.output_file = o]

ConvertInputs ==
    { ConvertCall("general", [EmptyDir EXCEPT !["a.vtt"] = c], "a.vtt", NoneVal) :
        c \in GeneralFiles }
    \cup
    { ConvertCall("wellformed", [EmptyDir EXCEPT !["a.vtt"] = c], "a.vtt", NoneVal) :
        c \in WellFormedFiles }
    \cup
    { ConvertCall("single", [EmptyDir EXCEPT !["a.vtt"] = c], "a.vtt", NoneVal) :
        c \in SingleBlockFiles }
    \cup
    { ConvertCall("srt", [EmptyDir EXCEPT !["c.srt"] = c], "c.srt", NoneVal) :
        c \in SrtFiles }
    \cup
    { ConvertCall("io",
                  [EmptyDir EXCEPT !["o.json"] = old,
                                   !["a.json"] = IF i = "a.json" THEN c ELSE old,
                                   !["a.vtt"] = IF i = "a.vtt" THEN c ELSE Absent],
                  i, o) :
        c \in SmallContents, i \in {"a.vtt", "a.json"},
        o \in {NoneVal, "o.json"}, old \in {Absent, OldJson} }

----------------------------------------------------------------------------
(* search_in_subtitles. *)

DisplayCap == 5        \* matches[:5]
DisplayWidth == 80     \* line[:80]

Min(a, b) == IF a < b THEN a ELSE b

\* the orders in which glob() can yield the names of S
Orderings(S) ==
    { q \in [1..Cardinality(S) -> S] : \A i, j \in DOMAIN q : q[i] = q[j] => i = j }

\* output_dir.glob("*" + ext): the directory's entries with that suffix
GlobNames(f, ext) ==
    { n \in FileNames :
        /\ PathExists(f, n)
        /\ CASE ext = ".vtt" -> n \in {"a.vtt", "b.vtt"}
             [] ext = ".srt" -> n \in {"c.srt"}
             [] OTHER -> FALSE }

\* `search_term.lower() in line.lower()`
LineMatches(term, line) == Contains(Lower(line), Lower(term))

\* the list comprehension `matches`: (i+1, line.strip()) of the matching lines
Matches(term, ls) ==
    LET hit == SelectSeq([i \in 1..Len(ls) |-> i],
                         LAMBDA i : LineMatches(term, ls[i]))
    IN  [j \in 1..Len(hit) |-> <<hit[j], Strip(ls[hit[j]])>>]

\* `matches[:5]`
Shown(matches) == SubSeq(matches, 1, Min(Len(matches), DisplayCap))

\* Faulty variant: the header counts the displayed matches only
ReportedCountCapped(matches) == Min(Len(matches), DisplayCap)

\* `len(matches)` in the per-file header
ReportedCount(matches) == Len(matches)

\* `len(matches) - 5`, printed `if len(matches) > 5`
MoreCount(matches) == Len(matches) - DisplayCap

\* what the body of `if matches:` prints for one file
Report(name, matches) ==
    << [kind |-> "header", file |-> name, count |-> ReportedCount(matches)] >>
    \o [j \in 1..Len(Shown(matches)) |->
          [kind |-> "match", file |-> name, line_num |-> Shown(matches)[j][1],
           text |-> Take(Shown(matches)[j][2], DisplayWidth)]]
    \o (IF Len(matches) > DisplayCap
        THEN << [kind |-> "more", file |-> name, count |-> MoreCount(matches)] >>
        ELSE <<>>)

\* Faulty variant: the try statement encloses the loop: the first failure ends it
IndexAfterErrorAbort(i, fl) == Len(fl)

\* the loop index after `except Exception` has printed its warning: the
\* try statement is inside the loop body, the loop goes on
IndexAfterError(i, fl) == i + 1

\* Lines of a searched file.
LineHx == <<"h", "x">>
LineH == <<" ", "H", " ">>
LineX == <<"x">>
\* a blank, then more than DisplayWidth characters
LongLine == [i \in 1..(DisplayWidth + 2) |-> IF i = 1 THEN " " ELSE "h"]

SearchLines == {LineHx, LineH, LineX}
SearchTerms == { <<"H">>, <<"h", "X">> }

SearchCall(sh, f, t, n) ==
    [Call("search", sh, f) EXCEPT !.search_term = t, !.filename = n]

SearchContents ==
    { Absent, Undecodable,
      TextFile(<<>>, FALSE),
      TextFile(<<LineHx>>, FALSE),
      TextFile(<<LineX, LineH>>, TRUE),
      TextFile(<<LongLine>>, TRUE) }

SearchInputs ==
    { SearchCall("cap", [EmptyDir EXCEPT !["a.vtt"] = TextFile(ls, TRUE)], t, NoneVal) :
        ls \in SeqsUpTo(SearchLines, MaxSearchLines), t \in SearchTerms }
    \cup
    { SearchCall("multi",
                 [EmptyDir EXCEPT !["a.vtt"] = a, !["b.vtt"] = b, !["c.srt"] = c],
                 t, n) :
        a \in SearchContents, b \in SearchContents, c \in SearchContents,
        t \in SearchTerms, n \in {NoneVal, "a.vtt"} }

----------------------------------------------------------------------------
(* download_subtitles. *)

\* the allow-list of _validate_url
Domains == { <<"youtube.com">>, <<"youtu.be">>, <<"m.", "youtube.com">> }

\* Faulty variant: every URL passes
ValidateUrlAlways(u) == TRUE

\* `any(domain in url for domain in [...])`
ValidateUrl(u) == \E d \in Domains : Contains(u, d)

\* `if formats is None: formats = ["vtt", "srt", "json"]`
DefaultFormats(f) == IF f.none THEN <<"vtt", "srt", "json">> ELSE f.list

\* the ydl_opts the collaborator is constructed with
YdlOpts(lang, f) ==
    [skip_download |-> TRUE, writesubtitles |-> TRUE,
     subtitleslangs |-> <<lang>>, subtitlesformat |-> f]

\* How the `with yt_dlp.YoutubeDL(...)` statement can end.
FetchOutcomes == {"ok", "ctor_raises", "extract_raises"}

\* str(e) of an exception the collaborator raises
ErrorMessages == { <<"yt-dlp", " ", "x">>, <<"YoutubeDL">>, <<"HTTP", " ", "x">> }

\* `"yt-dlp" in error_msg or "YoutubeDL" in error_msg`
IsInstallError(msg) == Contains(msg, <<"yt-dlp">>) \/ Contains(msg, <<"YoutubeDL">>)

\* what the collaborator may leave in the directory
Deposits(f) == { f, [f EXCEPT !["b.vtt"] = TextFile(<<Timing1, TextA>>, TRUE)] }

Urls ==
    { <<"https://", "youtu.be", "/", "x">>,
      <<"https://", "www.", "youtube.com", "/", "x">>,
      <<"https://", "m.", "youtube.com", "/", "x">>,
      <<"https://", "vimeo.com", "/", "1">>,
      <<"https://", "vimeo.com", "/", "?u=", "youtu.be">>,
      <<"youtube", ".", "com">>,
      <<>> }

DownloadInputs ==
    { [Call("download", "url", EmptyDir) EXCEPT
          !.url = u, !.language = l, !.formats = f] :
        u \in Urls, l \in {"es", "en"}, f \in {NoList, SomeList(<<"vtt">>)} }

----------------------------------------------------------------------------
(* The state machine. *)

argVars == << op, fs0, input_file, output_file, search_term, filename,
              url, language, formats, shape >>
parseVars == << lines, idx, current_subtitle, subtitles, cur_src, sub_src, raised >>
searchVars == << files, fidx, found_count >>
downloadVars == << calls, validated >>

Init ==
    \E c \in ConvertInputs \cup SearchInputs \cup DownloadInputs :
        /\ op = c.op
        /\ shape = c.shape
        /\ fs = c.fs
        /\ fs0 = c.fs
        /\ input_file = c.input_file
        /\ output_file = c.output_file
        /\ search_term = c.search_term
        /\ filename = c.filename
        /\ url = c.url
        /\ language = c.language
        /\ formats = c.formats
        /\ pc = "call"
        /\ lines = <<>>
        /\ idx = 0
        /\ current_subtitle = EmptyDict
        /\ subtitles = <<>>
        /\ cur_src = NoSrc
        /\ sub_src = <<>>
        /\ raised = FALSE
        /\ files = <<>>
        /\ fidx = 0
        /\ found_count = 0
        /\ calls = <<>>
        /\ validated = NoneVal
        /\ output_path = NoneVal
        /\ out = <<>>
        /\ result = NoneVal

\* `input_path.stem + ".json"` when no output_file is given
OutputName(i, o) == IF o = NoneVal THEN JsonName(Stem(i)) ELSE o

\* convert_to_json up to the try statement
ConvertCheck ==
    /\ op = "convert" /\ pc = "call"
    /\ IF ~PathExists(fs, input_file)
       THEN /\ out' = Append(out, [kind |-> "not_found", file |-> input_file])
            /\ result' = PyBool(FALSE)
            /\ pc' = "done"
            /\ UNCHANGED output_path
       ELSE /\ output_path' = OutputName(input_file, output_file)
            /\ pc' = "parse_open"
            /\ UNCHANGED << out, result >>
    /\ UNCHANGED << argVars, fs, parseVars, searchVars, downloadVars >>

\* _parse_subtitles up to the loop; a failing open() or readlines() is caught
\* by convert_to_json's `except Exception`
ParseOpen ==
    /\ pc = "parse_open"
    /\ subtitles' = <<>>
    /\ current_subtitle' = EmptyDict
    /\ IF Decodable(fs[input_file])
       THEN /\ lines' = ReadLines(fs[input_file])
            /\ pc' = "parse_loop"
            /\ UNCHANGED << out, result >>
       ELSE /\ out' = Append(out, [kind |-> "error", file |-> input_file])
            /\ result' = PyBool(FALSE)
            /\ pc' = "done"
            /\ UNCHANGED lines
    /\ UNCHANGED << argVars, fs, idx, cur_src, sub_src, raised, searchVars,
                    downloadVars, output_path >>

\* one iteration of `for line in lines`
ParseLine ==
    /\ pc = "parse_loop"
    /\ idx < Len(lines)
    /\ LET r == ParseStep(current_subtitle, subtitles, lines[idx + 1]) IN
       /\ current_subtitle' = r.cur
       /\ subtitles' = r.subs
       /\ raised' = r.raised
       /\ cur_src' = SrcStep(cur_src, r.branch, idx + 1)
       /\ sub_src' = IF r.branch = "flush" THEN Append(sub_src, cur_src) ELSE sub_src
       /\ idx' = idx + 1
       /\ IF r.raised
          THEN /\ out' = Append(out, [kind |-> "error", file |-> input_file])
               /\ result' = PyBool(FALSE)
               /\ pc' = "done"
          ELSE UNCHANGED << out, result, pc >>
    /\ UNCHANGED << argVars, fs, lines, searchVars, downloadVars, output_path >>

\* `if "timestamp" in current_subtitle: subtitles.append(...)`, `return`
FinalFlush(cur, subs) ==
    IF "timestamp" \in DOMAIN cur THEN Append(subs, cur) ELSE subs

ParseEnd ==
    /\ pc = "parse_loop"
    /\ idx = Len(lines)
    /\ subtitles' = FinalFlush(current_subtitle, subtitles)
    /\ sub_src' = IF FinalFlush(current_subtitle, subtitles) # subtitles
                  THEN Append(sub_src, cur_src) ELSE sub_src
    /\ pc' = "write"
    /\ UNCHANGED << argVars, fs, lines, idx, current_subtitle, cur_src, raised,
                    searchVars, downloadVars, output_path, out, result >>

\* `with open(output_path, 'w') as f: json.dump(...)`, then `return True`, or
\* the handler's `return False`
ConvertWrite ==
    /\ pc = "write"
    /\ \E w \in WriteOutcomes :
         /\ fs' = CASE w = "written" ->
                         [OpenForWrite(fs, output_path) EXCEPT
                            ![output_path] = JsonFile(JsonDump(subtitles))]
                    [] w = "dump_fails" ->
                         [OpenForWrite(fs, output_path) EXCEPT ![output_path] = PartialFile]
                    [] OTHER -> fs
         /\ result' = PyBool(w = "written")
         /\ out' = Append(out, IF w = "written"
                               THEN [kind |-> "converted", file |-> output_path]
                               ELSE [kind |-> "error", file |-> output_path])
    /\ pc' = "done"
    /\ UNCHANGED << argVars, parseVars, searchVars, downloadVars, output_path >>

\* search_in_subtitles up to the loop
SearchStart ==
    /\ op = "search" /\ pc = "call"
    /\ \E vtt \in Orderings(GlobNames(fs, ".vtt")),
          srt \in Orderings(GlobNames(fs, ".srt")) :
         LET fl == IF filename # NoneVal THEN <<filename>> ELSE vtt \o srt IN
         /\ files' = fl
         /\ IF fl = <<>>
            THEN /\ out' = Append(out, [kind |-> "no_files"])
                 /\ pc' = "done"
            ELSE /\ out' = Append(out, [kind |-> "searching", term |-> search_term])
                 /\ pc' = "scan"
    /\ fidx' = 0
    /\ found_count' = 0
    /\ UNCHANGED << argVars, fs, parseVars, downloadVars, output_path, result >>

\* one iteration of `for file in files`: the try statement and its handler
ScanFile ==
    /\ pc = "scan"
    /\ fidx < Len(files)
    /\ LET name == files[fidx + 1]
           matches == Matches(search_term, ReadLines(fs[name]))
       IN  IF Decodable(fs[name])
           THEN /\ out' = IF matches # <<>> THEN out \o Report(name, matches) ELSE out
                /\ found_count' = IF matches # <<>>
                                  THEN found_count + Len(matches)
                                  ELSE found_count
                /\ fidx' = fidx + 1
           ELSE /\ out' = Append(out, [kind |-> "warning", file |-> name])
                /\ fidx' = IndexAfterError(fidx, files)
                /\ UNCHANGED found_count
    /\ UNCHANGED << argVars, fs, parseVars, files, downloadVars, output_path,
                    pc, result >>

\* `if found_count == 0: print(...)`
SearchEnd ==
    /\ pc = "scan"
    /\ fidx >= Len(files)
    /\ out' = IF found_count = 0 THEN Append(out, [kind |-> "no_matches"]) ELSE out
    /\ pc' = "done"
    /\ UNCHANGED << argVars, fs, parseVars, searchVars, downloadVars,
                    output_path, result >>

\* download_subtitles up to the try statement
DownloadValidate ==
    /\ op = "download" /\ pc = "call"
    /\ validated' = PyBool(ValidateUrl(url))
    /\ IF ~ValidateUrl(url)
       THEN /\ out' = Append(out, [kind |-> "invalid_url"])
            /\ result' = PyBool(FALSE)
            /\ pc' = "done"
       ELSE /\ pc' = "fetch"
            /\ UNCHANGED << out, result >>
    /\ UNCHANGED << argVars, fs, parseVars, searchVars, calls, output_path >>

\* the try statement: the collaborator is constructed, then asked to extract
DownloadFetch ==
    /\ pc = "fetch"
    /\ \E w \in FetchOutcomes, msg \in ErrorMessages, dir \in Deposits(fs) :
         /\ calls' = calls
                \o << [fn |-> "YoutubeDL",
                       opts |-> YdlOpts(language, DefaultFormats(formats))] >>
                \o (IF w = "ctor_raises" THEN <<>>
                    ELSE << [fn |-> "extract_info", url |-> url] >>)
         /\ fs' = IF w = "ctor_raises" THEN fs ELSE dir
         /\ result' = PyBool(w = "ok")
         /\ out' = out \o << [kind |-> "downloading", language |-> language] >>
                \o << IF w = "ok" THEN [kind |-> "downloaded"]
                      ELSE IF IsInstallError(msg) THEN [kind |-> "not_installed"]
                      ELSE [kind |-> "error", msg |-> msg] >>
    /\ pc' = "done"
    /\ UNCHANGED << argVars, parseVars, searchVars, validated, output_path >>

Next ==
    \/ ConvertCheck
    \/ ParseOpen
    \/ ParseLine
    \/ ParseEnd
    \/ ConvertWrite
    \/ SearchStart
    \/ ScanFile
    \/ SearchEnd
    \/ DownloadValidate
    \/ DownloadFetch

Spec == Init /\ [][Next]_vars

----------------------------------------------------------------------------
(* Properties of _parse_subtitles.  They are read in the state in which    *)
(* the parser has returned to convert_to_json: `subtitles` is its result   *)
(* and RawLines is the text of the file it was given.                      *)

Parsed == op = "convert" /\ pc = "write"

RawLines == fs0[input_file].lines

Trimmed(i) == Strip(RawLines[i])

\* the kinds of line of a cue file
IsTimingLine(i) == Contains(Trimmed(i), <<" ", "-->", " ">>)
IsBlankLine(i) == Trimmed(i) = <<>>
IsBannerLine(i) == Trimmed(i) # <<>> /\ Head(Trimmed(i)) = "WEBVTT"
IsTextLine(i) == ~IsTimingLine(i) /\ ~IsBlankLine(i) /\ ~IsBannerLine(i)

Positions == [i \in 1..Len(RawLines) |-> i]
TimingPositions == SelectSeq(Positions, IsTimingLine)
TextPositionsAfter(n) == SelectSeq(Positions, LAMBDA i : i > n /\ IsTextLine(i))

RECURSIVE JoinedText(_)
JoinedText(ps) ==
    IF ps = <<>> THEN <<>>
    ELSE IF Len(ps) = 1 THEN Trimmed(ps[1])
    ELSE Trimmed(ps[1]) \o <<" ">> \o JoinedText(Tail(ps))

HasText(cue) == "text" \in DOMAIN cue /\ cue["text"] # <<>>

\* C1: n >= 1 well-formed blocks (a timing line, then one text line, blank
\* lines between blocks) give exactly n cues in file order, the i-th with the
\* i-th block's timing line as timestamp and the i-th block's text line as text.
C1_OneCuePerBlock ==
    (Parsed /\ shape = "wellformed") =>
        /\ Len(subtitles) = Len(TimingPositions)
        /\ \A i \in 1..Len(subtitles) :
             subtitles[i] = [timestamp |-> Trimmed(TimingPositions[i]),
                             text |-> Trimmed(TimingPositions[i] + 1)]

C3_TrailingTimestampOnly ==
    (/\ Parsed
     /\ TimingPositions # <<>>
     /\ TextPositionsAfter(TimingPositions[Len(TimingPositions)]) = <<>>) =>
        /\ subtitles # <<>>
        /\ subtitles[Len(subtitles)]["timestamp"]
             = Trimmed(TimingPositions[Len(TimingPositions)])
        /\ ~HasText(subtitles[Len(subtitles)])
        /\ \A i \in 1..(Len(subtitles) - 1) : HasText(subtitles[i])

\* C4: in an SRT-style file no numeric index line, of the first block or of
\* any later one, produces a cue or appears in the text of a cue.
C4_IndexLinesDropped ==
    (Parsed /\ shape = "srt") =>
        \A i \in 1..Len(subtitles) :
            /\ sub_src[i].ts = 0 \/ RawLines[sub_src[i].ts] \notin IndexLines
            /\ \A k \in 1..Len(sub_src[i].text) :
                 RawLines[sub_src[i].text[k]] \notin IndexLines
            /\ "text" \in DOMAIN subtitles[i] =>
                 \A k \in 1..Len(subtitles[i]["text"]) :
                    << subtitles[i]["text"][k] >> \notin IndexLines

\* C5: the parser raises on no line shape; a non-empty line read while no
\* timestamp is pending (every line before the first timing line) produces no
\* cue and is in no cue's text; without any timing line the result is empty.
C5_StrayLinesIgnored ==
    /\ raised = FALSE
    /\ Parsed =>
        /\ TimingPositions = <<>> => subtitles = <<>>
        /\ Len(sub_src) = Len(subtitles)
        /\ \A i \in 1..Len(subtitles) :
             /\ sub_src[i].ts \in 1..Len(RawLines)
             /\ IsTimingLine(sub_src[i].ts)
             /\ \A k \in 1..Len(sub_src[i].text) :
                  sub_src[i].text[k] > TimingPositions[1]

C5_Witness ==
    /\ Parsed /\ shape = "general"
    /\ Len(RawLines) >= 3
    /\ IsTextLine(1)
    /\ IsTimingLine(2)
    /\ IsTextLine(3)
    /\ Len(subtitles) = 1

\* C10: the parser returns at most one cue.  Nothing is appended inside the
\* loop; the cue emitted at the end has the last timing line as timestamp and,
\* as text, the space-join of every line after the first timing line that is
\* neither skipped nor a timing line (no text key when there is none).
C10_AtMostOneCue ==
    /\ (op = "convert" /\ pc = "parse_loop") => subtitles = <<>>
    /\ Parsed =>
        /\ Len(subtitles) <= 1
        /\ subtitles # <<>> <=> TimingPositions # <<>>
        /\ subtitles # <<>> =>
             LET last == TimingPositions[Len(TimingPositions)]
                 text == TextPositionsAfter(TimingPositions[1])
             IN  subtitles[1] =
                   IF text = <<>>
                   THEN [timestamp |-> Trimmed(last)]
                   ELSE [timestamp |-> Trimmed(last), text |-> JoinedText(text)]

C10_Witness ==
    /\ Parsed
    /\ Len(TimingPositions) = 2
    /\ Len(TextPositionsAfter(TimingPositions[1])) = 2
    /\ TextPositionsAfter(TimingPositions[2]) # <<>>
    /\ TimingPositions[2] > TextPositionsAfter(TimingPositions[1])[1]
    /\ Len(subtitles) = 1

----------------------------------------------------------------------------
(* Properties of search_in_subtitles, read when it has returned. *)

Searched == op = "search" /\ pc = "done" /\ files # <<>>

IsReadable(name) == fs0[name].kind = "text"

\* the physical lines of a file, as read
PhysicalLines(name) == ReadLines(fs0[name])

\* the 1-based numbers of the lines holding the term, whatever the case
MatchingLines(name) ==
    SelectSeq([i \in 1..Len(PhysicalLines(name)) |-> i],
              LAMBDA i : \E k \in 1..Len(PhysicalLines(name)[i]) :
                  /\ k + Len(search_term) - 1 <= Len(PhysicalLines(name)[i])
                  /\ \A d \in 1..Len(search_term) :
                        LowerChar(PhysicalLines(name)[i][k + d - 1])
                          = LowerChar(search_term[d]))

\* what is printed about one file
PrintedAbout(name) ==
    SelectSeq(out, LAMBDA r : r.kind \in {"header", "match", "more"} /\ r.file = name)

ExpectedAbout(name) ==
    LET M == MatchingLines(name)
        n == IF Len(M) < 5 THEN Len(M) ELSE 5
    IN  IF M = <<>> THEN <<>>
        ELSE << [kind |-> "header", file |-> name, count |-> Len(M)] >>
             \o [j \in 1..n |->
                   [kind |-> "match", file |-> name, line_num |-> M[j],
                    text |-> Take(Strip(PhysicalLines(name)[M[j]]), 80)]]
             \o (IF Len(M) > 5
                 THEN << [kind |-> "more", file |-> name, count |-> Len(M) - 5] >>
                 ELSE <<>>)

\* C6: for each readable file, with M its physical lines that hold the term
\* as a case-insensitive substring: the count reported is |M|, the matches
\* displayed are the first min(|M|, 5) of M in file order with their 1-based
\* line numbers, and "k more" is shown exactly when |M| > 5, with k = |M| - 5.
\* (A file with no matching line gets no report at all.)
C6_CountCapAndMore ==
    Searched =>
        \A i \in 1..Len(files) :
            IsReadable(files[i]) => PrintedAbout(files[i]) = ExpectedAbout(files[i])

C6_Witness ==
    /\ Searched
    /\ Len(MatchingLines(files[1])) = 7
    /\ \E i \in 1..Len(out) : out[i].kind = "more" /\ out[i].count = 2
    /\ \E i \in 1..Len(out) : out[i].kind = "header" /\ out[i].count = 7
    /\ Cardinality({ i \in 1..Len(out) : out[i].kind = "match" }) = 5

RECURSIVE ExpectedReports(_)
ExpectedReports(names) ==
    IF names = <<>> THEN <<>>
    ELSE ExpectedAbout(Head(names)) \o ExpectedReports(Tail(names))

RECURSIVE ExpectedCount(_)
ExpectedCount(names) ==
    IF names = <<>> THEN 0
    ELSE Len(MatchingLines(Head(names))) + ExpectedCount(Tail(names))

\* C7: a file that cannot be read or decoded gets a warning and never ends
\* the search: all the other files are scanned in order, and what is reported
\* and counted is what it would be were the failing files not in the set,
\* wherever they are in it.
C7_FailureIsolated ==
    Searched =>
        LET good == SelectSeq(files, IsReadable)
            bad == SelectSeq(files, LAMBDA n : ~IsReadable(n))
        IN  /\ fidx = Len(files)
            /\ SelectSeq(out, LAMBDA r : r.kind \in {"header", "match", "more"})
                 = ExpectedReports(good)
            /\ SelectSeq(out, LAMBDA r : r.kind = "warning")
                 = [i \in 1..Len(bad) |-> [kind |-> "warning", file |-> bad[i]]]
            /\ found_count = ExpectedCount(good)
            /\ (\E i \in 1..Len(out) : out[i].kind = "no_matches")
                 <=> ExpectedCount(good) = 0

C7_Witness ==
    /\ Searched
    /\ Len(files) = 3
    /\ ~IsReadable(files[1])
    /\ IsReadable(files[2]) /\ MatchingLines(files[2]) # <<>>
    /\ ~IsReadable(files[3])
    /\ found_count > 0

----------------------------------------------------------------------------
(* Properties of download_subtitles. *)

HasAllowedDomain(u) ==
    \/ Contains(u, <<"youtube.com">>)
    \/ Contains(u, <<"youtu.be">>)
    \/ Contains(u, <<"m.", "youtube.com">>)

\* C8: the URL check precedes the collaborator: a URL with none of the
\* allow-listed domains makes the operation return False with no invocation
\* of the collaborator, which is invoked only once _validate_url has returned
\* True.
C8_ValidateBeforeFetch ==
    op = "download" =>
        /\ calls # <<>> => (validated = "True" /\ HasAllowedDomain(url))
        /\ (pc = "done" /\ ~HasAllowedDomain(url)) =>
              (result = "False" /\ calls = <<>> /\ fs = fs0)
        /\ pc = "fetch" => validated = "True"

C8_Witness ==
    /\ op = "download" /\ pc = "done"
    /\ Contains(url, <<"vimeo.com">>)
    /\ validated = "False"
    /\ result = "False"
    /\ calls = <<>>

----------------------------------------------------------------------------
(* Properties of convert_to_json. *)

\* C9: a missing or undecodable input gives False and leaves the directory as
\* it was: nothing is created, truncated or modified; True is returned only
\* after the parsed cues have been written to the output path.
C9_FailedReadLeavesOutput ==
    (op = "convert" /\ pc = "done") =>
        /\ fs0[input_file].kind \in {"absent", "binary"} =>
              (result = "False" /\ fs = fs0)
        /\ result = "True" =>
              /\ idx = Len(lines)
              /\ output_path # NoneVal
              /\ fs[output_path] = [kind |-> "json", doc |-> JsonDump(subtitles)]
              /\ \A n \in FileNames \ {output_path} : fs[n] = fs0[n]

C9_Witness ==
    /\ op = "convert" /\ pc = "done"
    /\ fs0[input_file].kind = "binary"
    /\ fs0["a.json"] = OldJson
    /\ input_file = "a.vtt" /\ output_file = NoneVal
    /\ result = "False"
    /\ fs["a.json"] = OldJson

============================================================================
